---- MODULE Spec2Model ----
(***************************************************************************)
(* Model of src/mask_generator.py: MaskGenerator.create_mask, the pipeline *)
(* alpha plane -> binarize -> linear upscale by 4 -> binarize -> Canny ->  *)
(* dilate -> copy -> linear downscale by 4 -> binarize -> PIL image.       *)
(* Grids are functions [0..h-1 -> [0..w-1 -> 0..255]] (row, then column),  *)
(* the layout of a numpy array of shape (h, w).                            *)
(*                                                                         *)
(* Four specifications share the variables, each holding the others' at    *)
(* rest: Spec (create_mask, one invocation after the other), ConcSpec      *)
(* (create_mask on two threads), RetrySpec (src/fashion_trend_analyzer.py, *)
(* _retry_with_backoff) and FluxSpec / FluxFairSpec                        *)
(* (src/background_generator.py, enhance_product_image with the polling    *)
(* loop of _wait_for_result).                                              *)
(***************************************************************************)
EXTENDS Integers, Sequences, FiniteSets, TLC

VARIABLES
    imageFile,        \* content of the file at image_path
    files,            \* paths created on disk by the program
    self,             \* the MaskGenerator instance: [debug, debug_dir]
    now,              \* wall clock, in minutes (the resolution of the timestamp)
    pc,               \* position inside create_mask
    timestamp,        \* local of create_mask (line 76)
    original,         \* local: the decoded RGBA image
    width, height,    \* locals (line 80)
    alpha_array,      \* local (line 82)
    initial_mask,     \* local (line 96)
    mask_large,       \* local (lines 102-104)
    edges,            \* local (line 108)
    edge_zone,        \* local (line 112)
    final_high_res,   \* local (line 116)
    final_mask_array, \* local (lines 120-123)
    returned,         \* the masks handed back to the caller so far, in call order
    lastRun,          \* timestamp and debug flag of the latest invocation that returned
    \* FashionTrendAnalyzer._retry_with_backoff (fashion_trend_analyzer.py)
    retry_pc,         \* position inside _retry_with_backoff
    max_retries,      \* parameter
    initial_delay,    \* parameter
    attempt,          \* loop variable of line 54
    exc,              \* the exception e bound at line 57: its message
    calls,            \* what each invocation of func did so far, in order
    slept,            \* the arguments of time.sleep so far, in order
    retry_out,        \* how _retry_with_backoff ended
    \* FluxGenerator (background_generator.py)
    flux_pc,          \* position inside enhance_product_image / _wait_for_result
    require_api,      \* self.require_api
    mask_path,        \* parameter, rebound at line 182
    trend_data,       \* parameter, rebound at line 187
    raised,           \* the exception raised inside the try block and where
    flux_out,         \* how enhance_product_image ended
    http,             \* the HTTP requests sent so far
    clock,            \* time.time(), in seconds
    start_time,       \* local of _wait_for_result (line 90)
    current_delay,    \* local of _wait_for_result (line 91)
    poll,             \* what the latest poll of line 96 gave
    wait_out,         \* how _wait_for_result ended
    \* concurrent invocations of MaskGenerator.create_mask
    instances,        \* the MaskGenerator objects the threads call, by name
    frames            \* per thread: the generator and image it was given, its
                      \* position and the locals of its create_mask frame

maskVars == <<imageFile, files, self, now, pc, timestamp, original, width, height,
              alpha_array, initial_mask, mask_large, edges, edge_zone,
              final_high_res, final_mask_array, returned, lastRun>>

retryVars == <<retry_pc, max_retries, initial_delay, attempt, exc, calls, slept,
               retry_out>>

fluxVars == <<flux_pc, require_api, mask_path, trend_data, raised, flux_out, http,
              clock, start_time, current_delay, poll, wait_out>>

concVars == <<instances, frames>>

\* what no step of create_mask touches
others == <<retryVars, fluxVars, concVars>>

vars == <<maskVars, others>>

locals == <<timestamp, original, width, height, alpha_array, initial_mask,
            mask_large, edges, edge_zone, final_high_res, final_mask_array>>

----------------------------------------------------------------------------
(* Bounds of the model *)

\* general images have at most MaxPixels pixels, each alpha drawn from AlphaVals
MaxPixels == 2
\* shape images (an opaque filled rectangle on a transparent square field) and
\* images without alpha are at most MaxShapeDim x MaxShapeDim
MaxShapeDim == 3
\* the clock reads 0..MaxClock
MaxClock == 1
\* number of create_mask invocations in one behaviour
MaxCalls == 2

\* alpha values used to fill general images: both extremes and both sides of
\* the threshold
AlphaVals == {0, 127, 128, 255}

----------------------------------------------------------------------------
(* Program constants *)

ALPHA_THRESHOLD == 127
EDGE_LOW == 100
EDGE_HIGH == 200
SUPERSAMPLE_FACTOR == 4

\* cv2 fixed-point linear interpolation: INTER_RESIZE_COEF_BITS = 11
INTER_RESIZE_COEF_SCALE == 2048

----------------------------------------------------------------------------
(* Grids *)

Grid(w, h, vals) == [0..(h-1) -> [0..(w-1) -> vals]]

GridH(g) == Cardinality(DOMAIN g)

GridW(g) == IF DOMAIN g = {} THEN 0 ELSE Cardinality(DOMAIN g[0])

NoGrid == [y \in {} |-> 0]

\* the same grid, with every entry evaluated once (TLC otherwise re-evaluates a
\* function expression at each application)
Eager(g) == [y \in DOMAIN g |-> g[y] @@ << >>] @@ << >>

Min(a, b) == IF a < b THEN a ELSE b

Max(a, b) == IF a > b THEN a ELSE b

Abs(a) == IF a < 0 THEN -a ELSE a

\* clip(x, a, b) of cv2's resize: clamps x into a..b-1
Clip(x, a, b) == IF x >= a THEN (IF x < b THEN x ELSE b - 1) ELSE a

----------------------------------------------------------------------------
(* Image files and PIL *)

NoAlphaModes == {"RGB", "L"}

\* a file that PIL cannot open or decode
CorruptFile == [mode |-> "corrupt", width |-> 0, height |-> 0, alpha |-> NoGrid]

Decodable(f) == f.mode # "corrupt"

\* RGBA files of at most MaxPixels pixels, alpha drawn from AlphaVals
GeneralImages ==
    UNION { [mode : {"RGBA"}, width : {w}, height : {h}, alpha : Grid(w, h, AlphaVals)] :
            <<w, h>> \in { d \in (1..MaxPixels) \X (1..MaxPixels) : d[1] * d[2] <= MaxPixels } }

\* alpha plane of a filled rectangle [x0, x1) x [y0, y1) of opaque pixels on a
\* transparent field
RectAlpha(w, h, x0, x1, y0, y1) ==
    [y \in 0..(h-1) |-> [x \in 0..(w-1) |->
        IF x0 <= x /\ x < x1 /\ y0 <= y /\ y < y1 THEN 255 ELSE 0]]

\* shape images: a square field of side n with any filled rectangle in it
\* (the empty one included)
ShapeImages ==
    { [mode |-> "RGBA", width |-> n, height |-> n,
       alpha |-> RectAlpha(n, n, r[1], r[2], r[3], r[4])] :
      n \in 1..MaxShapeDim,
      r \in { q \in (0..MaxShapeDim) \X (0..MaxShapeDim) \X (0..MaxShapeDim) \X (0..MaxShapeDim) :
              q[1] <= q[2] /\ q[3] <= q[4] } }

\* files without an alpha channel
NoAlphaImages ==
    [mode : NoAlphaModes, width : 1..MaxShapeDim, height : 1..MaxShapeDim, alpha : {NoGrid}]

ImageFiles == GeneralImages \cup ShapeImages \cup NoAlphaImages \cup {CorruptFile}

\* variant: an image without alpha comes out fully transparent
ConvertRGBAClear(img) ==
    IF img.mode = "RGBA"
    THEN img
    ELSE [mode |-> "RGBA", width |-> img.width, height |-> img.height,
          alpha |-> [y \in 0..(img.height-1) |-> [x \in 0..(img.width-1) |-> 0]]]

\* PIL Image.convert('RGBA'): an image that has no alpha band gets alpha = 255
\* at every pixel; an RGBA image keeps its alpha band
ConvertRGBA(img) ==
    IF img.mode = "RGBA"
    THEN img
    ELSE [mode |-> "RGBA", width |-> img.width, height |-> img.height,
          alpha |-> [y \in 0..(img.height-1) |-> [x \in 0..(img.width-1) |-> 255]]]

\* original.split()[3] followed by np.array: the alpha band as an (h, w) array
AlphaBand(img) == img.alpha

\* PIL Image.fromarray on a 2-D uint8 array of shape (h, w): an "L" image of
\* size (w, h)
FromArray(a) == [mode |-> "L", width |-> GridW(a), height |-> GridH(a), px |-> a]

----------------------------------------------------------------------------
(* Binarization: np.where(a > ALPHA_THRESHOLD, 0, 255).astype(np.uint8) *)

\* variant: the comparison is not strict
BinarizeNonStrict(v) == IF v >= ALPHA_THRESHOLD THEN 0 ELSE 255

\* variant: a 0/1 mask instead of a 0/255 mask
BinarizeZeroOne(v) == IF v > ALPHA_THRESHOLD THEN 0 ELSE 1

Binarize(v) == IF v > ALPHA_THRESHOLD THEN 0 ELSE 255

\* variant: the thresholding is left out
BinarizeGridSkipped(g) == g

BinarizeGrid(g) == [y \in DOMAIN g |-> [x \in DOMAIN g[y] |-> Binarize(g[y][x])]]

----------------------------------------------------------------------------
(* cv2.resize(src, (dw, dh), interpolation=cv2.INTER_LINEAR) on uint8:      *)
(* the fixed-point path (HResizeLinear / VResizeLinear) of OpenCV           *)

\* cvRound of n/d for n >= 0, d > 0: round half to even
CvRound(n, d) ==
    LET q == n \div d
        r == n % d
    IN  IF 2 * r < d THEN q
        ELSE IF 2 * r > d THEN q + 1
        ELSE IF q % 2 = 0 THEN q ELSE q + 1

\* destination index d of a dsize-long axis over an ssize-long source axis:
\* f = (d + 0.5) * ssize / dsize - 0.5, s = floor(f), f -= s
\* returned as [s, numerator of f, denominator of f]
SrcCoord(d, ssize, dsize) ==
    LET num == (2 * d + 1) * ssize - dsize
        den == 2 * dsize
        s   == num \div den
    IN  [s |-> s, fnum |-> num - s * den, fden |-> den]

\* one row through the horizontal pass: 32-bit sums scaled by 2048
HResizeLinear(row, sw, dw) ==
    [dx \in 0..(dw-1) |->
        LET c  == SrcCoord(dx, sw, dw)
            sx == IF c.s < 0 THEN 0 ELSE IF c.s >= sw - 1 THEN sw - 1 ELSE c.s
            fn == IF c.s < 0 \/ c.s >= sw - 1 THEN 0 ELSE c.fnum
            a0 == CvRound((c.fden - fn) * INTER_RESIZE_COEF_SCALE, c.fden)
            a1 == CvRound(fn * INTER_RESIZE_COEF_SCALE, c.fden)
        IN  IF sx + 1 >= sw
            THEN row[sx] * INTER_RESIZE_COEF_SCALE
            ELSE row[sx] * a0 + row[sx + 1] * a1]

\* the vertical pass on two horizontally resized rows, cast to uchar
VResizeLinear(S0, S1, b0, b1) ==
    ((((b0 * (S0 \div 16)) \div 65536) + ((b1 * (S1 \div 16)) \div 65536) + 2) \div 4) % 256

Resize(src, dw, dh) ==
    LET sw == GridW(src)
        sh == GridH(src)
        hrows == Eager([sy \in 0..(sh-1) |-> HResizeLinear(src[sy], sw, dw)])
    IN  [dy \in 0..(dh-1) |->
            LET c  == SrcCoord(dy, sh, dh)
                b0 == CvRound((c.fden - c.fnum) * INTER_RESIZE_COEF_SCALE, c.fden)
                b1 == CvRound(c.fnum * INTER_RESIZE_COEF_SCALE, c.fden)
                r0 == hrows[Clip(c.s, 0, sh)]
                r1 == hrows[Clip(c.s + 1, 0, sh)]
            IN  [dx \in 0..(dw-1) |-> VResizeLinear(r0[dx], r1[dx], b0, b1)]]

----------------------------------------------------------------------------
(* cv2.Canny(img, low, high): aperture 3, L1 gradient magnitude *)

\* the image with a one-pixel BORDER_REPLICATE frame around it
Replicate(img, h, w) ==
    [y \in -1..h |-> [x \in -1..w |-> img[Clip(y, 0, h)][Clip(x, 0, w)]]]

\* 3x3 Sobel derivatives at (y, x) of a framed image
SobelX(p, y, x) ==
    (p[y-1][x+1] + 2 * p[y][x+1] + p[y+1][x+1]) - (p[y-1][x-1] + 2 * p[y][x-1] + p[y+1][x-1])

SobelY(p, y, x) ==
    (p[y+1][x-1] + 2 * p[y+1][x] + p[y+1][x+1]) - (p[y-1][x-1] + 2 * p[y-1][x] + p[y-1][x+1])

CANNY_SHIFT_ONE == 32768

\* (int)(tan(22.5 deg) * (1 << 15) + 0.5)
TG22 == 13573

\* 8-connected hysteresis: strong pixels pull in the weak pixels they touch
RECURSIVE Hysteresis(_, _)
Hysteresis(strong, weak) ==
    LET add == { p \in weak \ strong :
                   \E q \in strong : Abs(p[1] - q[1]) <= 1 /\ Abs(p[2] - q[2]) <= 1 }
    IN  IF add = {} THEN strong ELSE Hysteresis(strong \cup add, weak)

Canny(img, low, high) ==
    LET h == GridH(img)
        w == GridW(img)
        framed == Eager(Replicate(img, h, w))
        gx == Eager([y \in 0..(h-1) |-> [x \in 0..(w-1) |-> SobelX(framed, y, x)]])
        gy == Eager([y \in 0..(h-1) |-> [x \in 0..(w-1) |-> SobelY(framed, y, x)]])
        \* the magnitude buffer has a border of zeros
        magbuf == Eager([y \in -1..h |-> [x \in -1..w |->
                     IF y < 0 \/ y >= h \/ x < 0 \/ x >= w
                     THEN 0 ELSE Abs(gx[y][x]) + Abs(gy[y][x])]])
        \* non-maximum suppression: is (y, x) a local maximum along its gradient
        IsMax(y, x) ==
            LET m    == magbuf[y][x]
                xs   == gx[y][x]
                ys   == gy[y][x]
                ax   == Abs(xs)
                ay   == Abs(ys) * CANNY_SHIFT_ONE
                tg22 == ax * TG22
                tg67 == tg22 + ax * 2 * CANNY_SHIFT_ONE
                s    == IF (xs < 0) # (ys < 0) THEN -1 ELSE 1
            IN  /\ m > low
                /\ IF ay < tg22
                   THEN m > magbuf[y][x-1] /\ m >= magbuf[y][x+1]
                   ELSE IF ay > tg67
                        THEN m > magbuf[y-1][x] /\ m >= magbuf[y+1][x]
                        ELSE m > magbuf[y-1][x-s] /\ m > magbuf[y+1][x+s]
        \* the pixel map: 1 = not an edge, 0 = might be an edge, 2 = an edge
        pmap == Eager([y \in 0..(h-1) |-> [x \in 0..(w-1) |->
                   IF ~IsMax(y, x) THEN 1 ELSE IF magbuf[y][x] > high THEN 2 ELSE 0]])
        pixels == (0..(h-1)) \X (0..(w-1))
        weak   == { p \in pixels : pmap[p[1]][p[2]] = 0 }
        strong == { p \in pixels : pmap[p[1]][p[2]] = 2 }
        edge   == IF weak = {} THEN {} ELSE Hysteresis(strong, weak)
    IN  [y \in 0..(h-1) |-> [x \in 0..(w-1) |->
            IF pmap[y][x] = 2 \/ (pmap[y][x] = 0 /\ <<y, x>> \in edge) THEN 255 ELSE 0]]

\* cv2.dilate(img, np.ones((3,3)), iterations=1): maximum over the 3x3
\* neighbourhood, pixels outside the image ignored
Dilate(img) ==
    LET h == GridH(img)
        w == GridW(img)
    IN  [y \in 0..(h-1) |-> [x \in 0..(w-1) |->
            IF \E yy \in Max(0, y-1)..Min(h-1, y+1), xx \in Max(0, x-1)..Min(w-1, x+1) :
                   img[yy][xx] = 255
            THEN 255 ELSE 0]]

----------------------------------------------------------------------------
(* State machine *)

\* get_data_path('output/debug/mask_analysis'): the directory is created
DebugDir == "data/output/debug/mask_analysis"

NoImage == [mode |-> "none", width |-> 0, height |-> 0, alpha |-> NoGrid]

NoTimestamp == -1

\* MaskGenerator.__init__(debug)
NewGenerator(debug) ==
    IF debug THEN [debug |-> TRUE, debug_dir |-> DebugDir]
             ELSE [debug |-> FALSE, debug_dir |-> "unset"]

NoRun == [timestamp |-> NoTimestamp, debug |-> FALSE]

FreshLocals ==
    /\ timestamp = NoTimestamp
    /\ original = NoImage
    /\ width = 0
    /\ height = 0
    /\ alpha_array = NoGrid
    /\ initial_mask = NoGrid
    /\ mask_large = NoGrid
    /\ edges = NoGrid
    /\ edge_zone = NoGrid
    /\ final_high_res = NoGrid
    /\ final_mask_array = NoGrid

\* no call of _retry_with_backoff is in progress
NoOutcome == [kind |-> "none", value |-> "none"]

RetryIdle ==
    /\ retry_pc = "idle"
    /\ max_retries = 0
    /\ initial_delay = 0
    /\ attempt = 0
    /\ exc = << >>
    /\ calls = << >>
    /\ slept = << >>
    /\ retry_out = NoOutcome

NoException == [kind |-> "none", at |-> "none"]

\* no FluxGenerator call is in progress
FluxIdle ==
    /\ flux_pc = "idle"
    /\ require_api = FALSE
    /\ mask_path = "none"
    /\ trend_data = "none"
    /\ raised = NoException
    /\ flux_out = NoOutcome
    /\ http = {}
    /\ clock = 0
    /\ start_time = 0
    /\ current_delay = 0
    /\ poll = "none"
    /\ wait_out = NoOutcome

\* no thread exists
ConcIdle ==
    /\ instances = << >>
    /\ frames = << >>

\* the components create_mask does not touch are at rest
OthersIdle == RetryIdle /\ FluxIdle /\ ConcIdle

Init ==
    /\ imageFile \in ImageFiles
    /\ \E d \in BOOLEAN :
          /\ self = NewGenerator(d)
          /\ files = IF d THEN {DebugDir} ELSE {}
    /\ now = 0
    /\ pc = "idle"
    /\ FreshLocals
    /\ returned = << >>
    /\ lastRun = NoRun
    /\ OthersIdle

\* a caller builds a new MaskGenerator between two invocations
Construct ==
    /\ pc \in {"idle", "raised"}
    /\ Len(returned) < MaxCalls
    /\ \E d \in BOOLEAN :
          /\ self' = NewGenerator(d)
          /\ self' # self
          /\ files' = IF d THEN files \cup {DebugDir} ELSE files
    /\ UNCHANGED <<imageFile, now, pc, locals, returned, lastRun>>
    /\ UNCHANGED others

\* create_mask is entered; line 76 reads the clock
Call ==
    /\ pc \in {"idle", "raised"}
    /\ Len(returned) < MaxCalls
    /\ \E t \in now..MaxClock :
          /\ now' = t
          /\ timestamp' = t
    /\ pc' = "extract"
    /\ UNCHANGED <<imageFile, files, self, original, width, height, alpha_array,
                   initial_mask, mask_large, edges, edge_zone, final_high_res,
                   final_mask_array, returned, lastRun>>
    /\ UNCHANGED others

\* variant: a file that cannot be decoded is replaced by a 1x1 transparent
\* canvas and the later stages run on it
ExtractAlphaFallback ==
    /\ pc = "extract"
    /\ original' = IF Decodable(imageFile)
                    THEN ConvertRGBA(imageFile)
                    ELSE [mode |-> "RGBA", width |-> 1, height |-> 1,
                          alpha |-> [y \in 0..0 |-> [x \in 0..0 |-> 0]]]
    /\ width' = original'.width
    /\ height' = original'.height
    /\ alpha_array' = AlphaBand(original')
    /\ pc' = "binarize"
    /\ UNCHANGED <<imageFile, files, self, now, timestamp, initial_mask, mask_large,
                   edges, edge_zone, final_high_res, final_mask_array, returned,
                   lastRun>>
    /\ UNCHANGED others

\* step 1, lines 79-82; Image.open raises on a file it cannot decode and the
\* exception leaves create_mask
ExtractAlpha ==
    /\ pc = "extract"
    /\ IF Decodable(imageFile)
       THEN /\ original' = ConvertRGBA(imageFile)
            /\ width' = original'.width
            /\ height' = original'.height
            /\ alpha_array' = AlphaBand(original')
            /\ pc' = "binarize"
            /\ UNCHANGED timestamp
       ELSE /\ pc' = "raised"
            /\ timestamp' = NoTimestamp
            /\ UNCHANGED <<original, width, height, alpha_array>>
    /\ UNCHANGED <<imageFile, files, self, now, initial_mask, mask_large, edges,
                   edge_zone, final_high_res, final_mask_array, returned, lastRun>>
    /\ UNCHANGED others

\* variant: the debug image of step 2 is saved (line 97 active)
InitialMaskSaveDebug ==
    /\ pc = "binarize"
    /\ initial_mask' = BinarizeGrid(alpha_array)
    /\ files' = IF self.debug THEN files \cup {"data/output/debug/mask_analysis/2_initial_binary.png"}
                             ELSE files
    /\ pc' = "supersample"
    /\ UNCHANGED <<imageFile, self, now, timestamp, original, width, height,
                   alpha_array, mask_large, edges, edge_zone, final_high_res,
                   final_mask_array, returned, lastRun>>
    /\ UNCHANGED others

\* step 2, line 96
InitialMask ==
    /\ pc = "binarize"
    /\ initial_mask' = BinarizeGrid(alpha_array)
    /\ pc' = "supersample"
    /\ UNCHANGED <<imageFile, files, self, now, timestamp, original, width, height,
                   alpha_array, mask_large, edges, edge_zone, final_high_res,
                   final_mask_array, returned, lastRun>>
    /\ UNCHANGED others

\* variant: the upscaled mask is not thresholded again
SupersampleNoThreshold ==
    /\ pc = "supersample"
    /\ mask_large' = Resize(initial_mask, width * SUPERSAMPLE_FACTOR,
                            height * SUPERSAMPLE_FACTOR)
    /\ pc' = "canny"
    /\ UNCHANGED <<imageFile, files, self, now, timestamp, original, width, height,
                   alpha_array, initial_mask, edges, edge_zone, final_high_res,
                   final_mask_array, returned, lastRun>>
    /\ UNCHANGED others

\* variant: the upscaled mask is thresholded to 255 above the threshold
SupersampleKeepsPolarity ==
    /\ pc = "supersample"
    /\ mask_large' =
          LET up == Resize(initial_mask, width * SUPERSAMPLE_FACTOR,
                           height * SUPERSAMPLE_FACTOR)
          IN  [y \in DOMAIN up |-> [x \in DOMAIN up[y] |->
                  IF up[y][x] > ALPHA_THRESHOLD THEN 255 ELSE 0]]
    /\ pc' = "canny"
    /\ UNCHANGED <<imageFile, files, self, now, timestamp, original, width, height,
                   alpha_array, initial_mask, edges, edge_zone, final_high_res,
                   final_mask_array, returned, lastRun>>
    /\ UNCHANGED others

\* step 3, lines 100-104
Supersample ==
    /\ pc = "supersample"
    /\ mask_large' = BinarizeGrid(Resize(initial_mask, width * SUPERSAMPLE_FACTOR,
                                         height * SUPERSAMPLE_FACTOR))
    /\ pc' = "canny"
    /\ UNCHANGED <<imageFile, files, self, now, timestamp, original, width, height,
                   alpha_array, initial_mask, edges, edge_zone, final_high_res,
                   final_mask_array, returned, lastRun>>
    /\ UNCHANGED others

\* step 4, line 108
EdgeDetect ==
    /\ pc = "canny"
    /\ edges' = Canny(mask_large, EDGE_LOW, EDGE_HIGH)
    /\ pc' = "dilate"
    /\ UNCHANGED <<imageFile, files, self, now, timestamp, original, width, height,
                   alpha_array, initial_mask, mask_large, edge_zone, final_high_res,
                   final_mask_array, returned, lastRun>>
    /\ UNCHANGED others

\* step 4, lines 111-112
DilateEdges ==
    /\ pc = "dilate"
    /\ edge_zone' = Dilate(edges)
    /\ pc' = "final"
    /\ UNCHANGED <<imageFile, files, self, now, timestamp, original, width, height,
                   alpha_array, initial_mask, mask_large, edges, final_high_res,
                   final_mask_array, returned, lastRun>>
    /\ UNCHANGED others

\* the supersampled mask with the transition zone cleared
Blend(large, zone) ==
    [y \in DOMAIN large |-> [x \in DOMAIN large[y] |->
        IF zone[y][x] = 255 THEN 0 ELSE large[y][x]]]

\* variant: the transition zone is composited into the final mask
FinalHighResBlended ==
    /\ pc = "final"
    /\ final_high_res' = Blend(mask_large, edge_zone)
    /\ pc' = "downsample"
    /\ UNCHANGED <<imageFile, files, self, now, timestamp, original, width, height,
                   alpha_array, initial_mask, mask_large, edges, edge_zone,
                   final_mask_array, returned, lastRun>>
    /\ UNCHANGED others

\* variant: the transition zone is composited in on a debug generator only
FinalHighResDebugBlend ==
    /\ pc = "final"
    /\ final_high_res' = IF self.debug THEN Blend(mask_large, edge_zone) ELSE mask_large
    /\ pc' = "downsample"
    /\ UNCHANGED <<imageFile, files, self, now, timestamp, original, width, height,
                   alpha_array, initial_mask, mask_large, edges, edge_zone,
                   final_mask_array, returned, lastRun>>
    /\ UNCHANGED others

\* step 5, line 116
FinalHighRes ==
    /\ pc = "final"
    /\ final_high_res' = mask_large
    /\ pc' = "downsample"
    /\ UNCHANGED <<imageFile, files, self, now, timestamp, original, width, height,
                   alpha_array, initial_mask, mask_large, edges, edge_zone,
                   final_mask_array, returned, lastRun>>
    /\ UNCHANGED others

\* variant: the target size is given as (height, width)
DownsampleSwapped ==
    /\ pc = "downsample"
    /\ final_mask_array' = BinarizeGrid(Resize(final_high_res, height, width))
    /\ pc' = "return"
    /\ UNCHANGED <<imageFile, files, self, now, timestamp, original, width, height,
                   alpha_array, initial_mask, mask_large, edges, edge_zone,
                   final_high_res, returned, lastRun>>
    /\ UNCHANGED others

\* variant: the downscaled mask is not thresholded again
DownsampleNoThreshold ==
    /\ pc = "downsample"
    /\ final_mask_array' = Resize(final_high_res, width, height)
    /\ pc' = "return"
    /\ UNCHANGED <<imageFile, files, self, now, timestamp, original, width, height,
                   alpha_array, initial_mask, mask_large, edges, edge_zone,
                   final_high_res, returned, lastRun>>
    /\ UNCHANGED others

\* step 6, lines 120-123
Downsample ==
    /\ pc = "downsample"
    /\ final_mask_array' = BinarizeGrid(Resize(final_high_res, width, height))
    /\ pc' = "return"
    /\ UNCHANGED <<imageFile, files, self, now, timestamp, original, width, height,
                   alpha_array, initial_mask, mask_large, edges, edge_zone,
                   final_high_res, returned, lastRun>>
    /\ UNCHANGED others

\* lines 124 and 129: the mask goes back to the caller and the frame is gone.
\* lastRun remembers the timestamp and the debug flag the invocation ran with.
Return ==
    /\ pc = "return"
    /\ returned' = Append(returned, FromArray(final_mask_array))
    /\ lastRun' = [timestamp |-> timestamp, debug |-> self.debug]
    /\ pc' = "idle"
    /\ timestamp' = NoTimestamp
    /\ original' = NoImage
    /\ width' = 0
    /\ height' = 0
    /\ alpha_array' = NoGrid
    /\ initial_mask' = NoGrid
    /\ mask_large' = NoGrid
    /\ edges' = NoGrid
    /\ edge_zone' = NoGrid
    /\ final_high_res' = NoGrid
    /\ final_mask_array' = NoGrid
    /\ UNCHANGED <<imageFile, files, self, now>>
    /\ UNCHANGED others

Next ==
    \/ Construct
    \/ Call
    \/ ExtractAlpha
    \/ InitialMask
    \/ Supersample
    \/ EdgeDetect
    \/ DilateEdges
    \/ FinalHighRes
    \/ Downsample
    \/ Return

Spec == Init /\ [][Next]_vars

----------------------------------------------------------------------------
(* FashionTrendAnalyzer._retry_with_backoff, fashion_trend_analyzer.py 52-63 *)

\* no create_mask is in progress and none has run
MaskIdle ==
    /\ imageFile = CorruptFile
    /\ self = NewGenerator(FALSE)
    /\ files = {}
    /\ now = 0
    /\ pc = "idle"
    /\ FreshLocals
    /\ returned = << >>
    /\ lastRun = NoRun

\* max_retries is drawn from 0..MaxRetries
MaxRetries == 3
\* initial_delay is drawn from 0..MaxInitialDelay
MaxInitialDelay == 2

\* exception messages, as sequences of characters
MsgRateLimit == <<"r","a","t","e","_","l","i","m","i","t">>
MsgRateLimitUpper == <<"4","2","9"," ","R","a","t","e","_","L","I","M","I","T","!">>
MsgRateSpaceLimit == <<"r","a","t","e"," ","l","i","m","i","t">>
MsgTimeout == <<"t","i","m","e","d"," ","o","u","t">>

Messages == {MsgRateLimit, MsgRateLimitUpper, MsgRateSpaceLimit, MsgTimeout}

\* the values func may return
FuncResults == {"completion1", "completion2"}

UpperCase == <<"A","B","C","D","E","F","G","H","I","J","K","L","M",
               "N","O","P","Q","R","S","T","U","V","W","X","Y","Z">>
LowerCase == <<"a","b","c","d","e","f","g","h","i","j","k","l","m",
               "n","o","p","q","r","s","t","u","v","w","x","y","z">>

\* str.lower()
Lower(str) ==
    [i \in 1..Len(str) |->
        IF \E k \in 1..26 : UpperCase[k] = str[i]
        THEN LowerCase[CHOOSE k \in 1..26 : UpperCase[k] = str[i]]
        ELSE str[i]]

\* sub in str
Contains(sub, str) ==
    \E i \in 0..(Len(str) - Len(sub)) :
        \A k \in 1..Len(sub) : str[i + k] = sub[k]

\* 2 ** n
RECURSIVE Pow2(_)
Pow2(n) == IF n = 0 THEN 1 ELSE 2 * Pow2(n - 1)

\* line 57: "rate_limit" in str(e).lower() and attempt < max_retries - 1
ShouldRetry(e, a, m) ==
    /\ Contains(<<"r","a","t","e","_","l","i","m","i","t">>, Lower(e))
    /\ a < m - 1

RetryInit ==
    /\ MaskIdle
    /\ RetryIdle
    /\ FluxIdle
    /\ ConcIdle

\* _retry_with_backoff(func, max_retries, initial_delay) is entered
RetryCall ==
    /\ retry_pc = "idle"
    /\ retry_out = NoOutcome
    /\ \E m \in 0..MaxRetries, d \in 0..MaxInitialDelay :
          /\ max_retries' = m
          /\ initial_delay' = d
    /\ attempt' = 0
    /\ retry_pc' = "loop"
    /\ UNCHANGED <<exc, calls, slept, retry_out, maskVars, fluxVars, concVars>>

\* lines 54-56: the next attempt of range(max_retries) invokes func, which
\* returns a value or raises
RetryInvoke ==
    /\ retry_pc = "loop"
    /\ attempt < max_retries
    /\ \/ \E r \in FuncResults :
             /\ calls' = Append(calls, [kind |-> "return", value |-> r])
             /\ retry_out' = [kind |-> "return", value |-> r]
             /\ retry_pc' = "idle"
             /\ UNCHANGED exc
       \/ \E msg \in Messages :
             /\ calls' = Append(calls, [kind |-> "raise", value |-> msg])
             /\ exc' = msg
             /\ retry_pc' = "except"
             /\ UNCHANGED retry_out
    /\ UNCHANGED <<max_retries, initial_delay, attempt, slept, maskVars, fluxVars, concVars>>

\* range(max_retries) is exhausted: the function falls off its end
RetryExhausted ==
    /\ retry_pc = "loop"
    /\ attempt >= max_retries
    /\ retry_out' = [kind |-> "return", value |-> "None"]
    /\ retry_pc' = "idle"
    /\ UNCHANGED <<max_retries, initial_delay, attempt, exc, calls, slept, maskVars, fluxVars, concVars>>

\* variant: every exception is retried while attempts remain
RetryExceptAnyError ==
    /\ retry_pc = "except"
    /\ IF attempt < max_retries - 1
       THEN /\ slept' = Append(slept, initial_delay * Pow2(attempt))
            /\ attempt' = attempt + 1
            /\ retry_pc' = "loop"
            /\ UNCHANGED retry_out
       ELSE /\ retry_out' = [kind |-> "raise", value |-> exc]
            /\ retry_pc' = "idle"
            /\ UNCHANGED <<attempt, slept>>
    /\ UNCHANGED <<max_retries, initial_delay, exc, calls, maskVars, fluxVars, concVars>>

\* lines 57-63: sleep and go round again, or re-raise e
RetryExcept ==
    /\ retry_pc = "except"
    /\ IF ShouldRetry(exc, attempt, max_retries)
       THEN /\ slept' = Append(slept, initial_delay * Pow2(attempt))
            /\ attempt' = attempt + 1
            /\ retry_pc' = "loop"
            /\ UNCHANGED retry_out
       ELSE /\ retry_out' = [kind |-> "raise", value |-> exc]
            /\ retry_pc' = "idle"
            /\ UNCHANGED <<attempt, slept>>
    /\ UNCHANGED <<max_retries, initial_delay, exc, calls, maskVars, fluxVars, concVars>>

RetryNext ==
    \/ RetryCall
    \/ RetryInvoke
    \/ RetryExhausted
    \/ RetryExcept

RetrySpec == RetryInit /\ [][RetryNext]_vars

----------------------------------------------------------------------------
(* FluxGenerator, background_generator.py: exceptions *)

MAX_WAIT_TIME == 600
INITIAL_RETRY_DELAY == 2
MAX_RETRY_DELAY == 30
\* timeout=30 of the polling GET
POLL_TIMEOUT == 30

\* the exception classes that occur, each with its base classes
\* (IOError is OSError; requests.exceptions.RequestException derives from it)
Bases ==
    [k \in {"Exception"} |-> {}]
    @@ [k \in {"IOError", "ValueError", "KeyError", "TypeError"} |-> {"Exception"}]
    @@ [k \in {"FileNotFoundError", "UnidentifiedImageError", "TimeoutError",
               "RequestException"} |-> {"IOError", "Exception"}]
    @@ [k \in {"ConnectionError", "Timeout", "HTTPError"} |->
           {"RequestException", "IOError", "Exception"}]
    @@ [k \in {"JSONDecodeError"} |->
           {"RequestException", "IOError", "ValueError", "Exception"}]

ExcKinds == DOMAIN Bases

\* isinstance(e, b)
IsA(k, b) == k = b \/ b \in Bases[k]

\* type(e)(str(e)), line 240: the class is built again from one string;
\* JSONDecodeError needs (msg, doc, pos) and the construction raises TypeError
Reraise(k) == IF k = "JSONDecodeError" THEN "TypeError" ELSE k

\* the except clauses of lines 239-244, in order
Handler(k) ==
    IF IsA(k, "IOError") \/ IsA(k, "ValueError") THEN Reraise(k)
    ELSE IF IsA(k, "RequestException") THEN "Exception"
    ELSE "Exception"

\* what a poll can give: HTTP 429, another non-2xx status, a transport
\* failure, a body that is not JSON, or a JSON object with its status
PollRequestErrors == {"HTTPError", "ConnectionError", "Timeout", "JSONDecodeError"}

PollOutcomes ==
    {"429"} \cup PollRequestErrors \cup
    {"TaskNotFound", "Pending", "ReadySample", "ReadyNoSample", "ReadyNoResult", "Other"}

\* how long a poll takes, in seconds
PollDurations == {0, 1, POLL_TIMEOUT}

----------------------------------------------------------------------------
(* FluxGenerator.enhance_product_image and _wait_for_result *)

FluxInit ==
    /\ MaskIdle
    /\ RetryIdle
    /\ FluxIdle
    /\ ConcIdle

\* FluxGenerator(require_api), lines 34-62
FluxConstruct ==
    /\ flux_pc = "idle"
    /\ require_api' \in BOOLEAN
    /\ flux_pc' = "built"
    /\ UNCHANGED <<mask_path, trend_data, raised, flux_out, http, clock, start_time,
                   current_delay, poll, wait_out, maskVars, retryVars, concVars>>

\* enhance_product_image(image_path, mask_path, trend_data) is entered
EnhanceCall ==
    /\ flux_pc = "built"
    /\ mask_path' \in {"none", "given"}
    /\ trend_data' \in {"None", "with_prompt", "without_prompt"}
    /\ flux_pc' = "open"
    /\ UNCHANGED <<require_api, raised, flux_out, http, clock, start_time,
                   current_delay, poll, wait_out, maskVars, retryVars, concVars>>

\* an exception is raised inside the try block of lines 169-237
Raise(kind, at) ==
    /\ raised' = [kind |-> kind, at |-> at]
    /\ flux_pc' = "handler"

\* lines 171-173
OpenImage ==
    /\ flux_pc = "open"
    /\ \/ flux_pc' = "mask" /\ UNCHANGED raised
       \/ \E k \in {"FileNotFoundError", "UnidentifiedImageError"} : Raise(k, "image")
    /\ UNCHANGED <<require_api, mask_path, trend_data, flux_out, http, clock,
                   start_time, current_delay, poll, wait_out, maskVars, retryVars, concVars>>

\* lines 176-183: without a mask_path a mask is generated and saved
GenerateMask ==
    /\ flux_pc = "mask"
    /\ IF mask_path = "none"
       THEN \/ /\ mask_path' = "generated"
               /\ flux_pc' = "trend"
               /\ UNCHANGED raised
            \/ /\ Raise("IOError", "mask")
               /\ UNCHANGED mask_path
       ELSE /\ flux_pc' = "trend"
            /\ UNCHANGED <<mask_path, raised>>
    /\ UNCHANGED <<require_api, trend_data, flux_out, http, clock, start_time,
                   current_delay, poll, wait_out, maskVars, retryVars, concVars>>

\* lines 186-187 and 135-147: without trend_data the latest analysis file is
\* loaded; whatever fails there is raised again as a plain Exception
LoadTrend ==
    /\ flux_pc = "trend"
    /\ IF trend_data = "None"
       THEN \/ /\ trend_data' \in {"with_prompt", "without_prompt"}
               /\ flux_pc' = "check"
               /\ UNCHANGED raised
            \/ /\ Raise("Exception", "trend_file")
               /\ UNCHANGED trend_data
       ELSE /\ flux_pc' = "check"
            /\ UNCHANGED <<trend_data, raised>>
    /\ UNCHANGED <<require_api, mask_path, flux_out, http, clock, start_time,
                   current_delay, poll, wait_out, maskVars, retryVars, concVars>>

\* variant: the require_api test is left out
CheckApiAlwaysOn ==
    /\ flux_pc = "check"
    /\ flux_pc' = "payload"
    /\ UNCHANGED <<require_api, mask_path, trend_data, raised, flux_out, http, clock,
                   start_time, current_delay, poll, wait_out, maskVars, retryVars, concVars>>

\* lines 189-190
CheckApi ==
    /\ flux_pc = "check"
    /\ IF ~require_api
       THEN /\ flux_out' = [kind |-> "return", value |-> "None"]
            /\ flux_pc' = "done"
       ELSE /\ flux_pc' = "payload"
            /\ UNCHANGED flux_out
    /\ UNCHANGED <<require_api, mask_path, trend_data, raised, http, clock,
                   start_time, current_delay, poll, wait_out, maskVars, retryVars, concVars>>

\* lines 193-198: both files are read, then the prompt is looked up
BuildPayload ==
    /\ flux_pc = "payload"
    /\ \/ Raise("IOError", "encode_image")
       \/ Raise("IOError", "encode_mask")
       \/ IF trend_data = "without_prompt"
          THEN Raise("KeyError", "prompt")
          ELSE flux_pc' = "submit" /\ UNCHANGED raised
    /\ UNCHANGED <<require_api, mask_path, trend_data, flux_out, http, clock,
                   start_time, current_delay, poll, wait_out, maskVars, retryVars, concVars>>

\* lines 205-224: the POST, its status, its body and the task id in it
Submit ==
    /\ flux_pc = "submit"
    /\ http' = http \cup {"POST submit"}
    /\ \E d \in {0, 1} : clock' = clock + d
    /\ \/ \E k \in {"ConnectionError", "Timeout", "HTTPError"} : Raise(k, "submit")
       \/ Raise("JSONDecodeError", "submit_body")
       \/ Raise("ValueError", "task_id")
       \/ flux_pc' = "wait" /\ UNCHANGED raised
    /\ UNCHANGED <<require_api, mask_path, trend_data, flux_out, start_time,
                   current_delay, poll, wait_out, maskVars, retryVars, concVars>>

\* _wait_for_result(task_id) is entered, lines 90-91
WaitStart ==
    /\ flux_pc = "wait"
    /\ start_time' = clock
    /\ current_delay' = INITIAL_RETRY_DELAY
    /\ flux_pc' = "test"
    /\ UNCHANGED <<require_api, mask_path, trend_data, raised, flux_out, http, clock,
                   poll, wait_out, maskVars, retryVars, concVars>>

\* variant: the loop goes on while the elapsed time is <= MAX_WAIT_TIME
WaitTestInclusive ==
    /\ flux_pc = "test"
    /\ IF clock - start_time <= MAX_WAIT_TIME
       THEN /\ flux_pc' = "poll"
            /\ UNCHANGED <<raised, wait_out>>
       ELSE /\ wait_out' = [kind |-> "raise", value |-> "TimeoutError"]
            /\ Raise("TimeoutError", "wait")
    /\ UNCHANGED <<require_api, mask_path, trend_data, flux_out, http, clock,
                   start_time, current_delay, poll, maskVars, retryVars, concVars>>

\* line 93 and lines 132-133: the loop test, and the TimeoutError after it
WaitTest ==
    /\ flux_pc = "test"
    /\ IF clock - start_time < MAX_WAIT_TIME
       THEN /\ flux_pc' = "poll"
            /\ UNCHANGED <<raised, wait_out>>
       ELSE /\ wait_out' = [kind |-> "raise", value |-> "TimeoutError"]
            /\ Raise("TimeoutError", "wait")
    /\ UNCHANGED <<require_api, mask_path, trend_data, flux_out, http, clock,
                   start_time, current_delay, poll, maskVars, retryVars, concVars>>

\* lines 95-128: one GET of get_result and what is done with the response.
\* A RequestException is caught at line 127 and the loop goes on.
Poll ==
    /\ flux_pc = "poll"
    /\ http' = http \cup {"GET get_result"}
    /\ \E d \in PollDurations : clock' = clock + d
    /\ \E o \in PollOutcomes :
          /\ poll' = o
          /\ CASE o = "429" ->
                    /\ flux_pc' = "sleep429"
                    /\ UNCHANGED <<raised, wait_out>>
               [] o = "ReadySample" ->
                    /\ wait_out' = [kind |-> "return", value |-> "result_url"]
                    /\ flux_pc' = "download"
                    /\ UNCHANGED raised
               [] o = "ReadyNoSample" ->
                    /\ wait_out' = [kind |-> "raise", value |-> "ValueError"]
                    /\ Raise("ValueError", "sample")
               [] OTHER ->
                    /\ flux_pc' = "sleep"
                    /\ UNCHANGED <<raised, wait_out>>
    /\ UNCHANGED <<require_api, mask_path, trend_data, flux_out, start_time,
                   current_delay, maskVars, retryVars, concVars>>

\* lines 103-106: after a 429 the loop sleeps and continues; current_delay
\* keeps its value
SleepRateLimit ==
    /\ flux_pc = "sleep429"
    /\ clock' = clock + Min(current_delay * 2, MAX_RETRY_DELAY)
    /\ flux_pc' = "test"
    /\ UNCHANGED <<require_api, mask_path, trend_data, raised, flux_out, http,
                   start_time, current_delay, poll, wait_out, maskVars, retryVars, concVars>>

\* variant: the delay doubles without the cap of MAX_RETRY_DELAY
SleepUncapped ==
    /\ flux_pc = "sleep"
    /\ clock' = clock + current_delay
    /\ current_delay' = current_delay * 2
    /\ flux_pc' = "test"
    /\ UNCHANGED <<require_api, mask_path, trend_data, raised, flux_out, http,
                   start_time, poll, wait_out, maskVars, retryVars, concVars>>

\* lines 129-130
Sleep ==
    /\ flux_pc = "sleep"
    /\ clock' = clock + current_delay
    /\ current_delay' = Min(current_delay * 2, MAX_RETRY_DELAY)
    /\ flux_pc' = "test"
    /\ UNCHANGED <<require_api, mask_path, trend_data, raised, flux_out, http,
                   start_time, poll, wait_out, maskVars, retryVars, concVars>>

\* lines 227-228
Download ==
    /\ flux_pc = "download"
    /\ http' = http \cup {"GET download"}
    /\ \/ \E k \in {"ConnectionError", "Timeout", "HTTPError"} : Raise(k, "download")
       \/ flux_pc' = "save" /\ UNCHANGED raised
    /\ UNCHANGED <<require_api, mask_path, trend_data, flux_out, clock, start_time,
                   current_delay, poll, wait_out, maskVars, retryVars, concVars>>

\* lines 231-237
SaveResult ==
    /\ flux_pc = "save"
    /\ \/ Raise("UnidentifiedImageError", "result_image") /\ UNCHANGED flux_out
       \/ Raise("IOError", "save") /\ UNCHANGED flux_out
       \/ /\ flux_out' = [kind |-> "return", value |-> "output_path"]
          /\ flux_pc' = "done"
          /\ UNCHANGED raised
    /\ UNCHANGED <<require_api, mask_path, trend_data, http, clock, start_time,
                   current_delay, poll, wait_out, maskVars, retryVars, concVars>>

\* lines 239-244
HandleException ==
    /\ flux_pc = "handler"
    /\ flux_out' = [kind |-> "raise", value |-> Handler(raised.kind)]
    /\ flux_pc' = "done"
    /\ UNCHANGED <<require_api, mask_path, trend_data, raised, http, clock,
                   start_time, current_delay, poll, wait_out, maskVars, retryVars, concVars>>

FluxNext ==
    \/ FluxConstruct
    \/ EnhanceCall
    \/ OpenImage
    \/ GenerateMask
    \/ LoadTrend
    \/ CheckApi
    \/ BuildPayload
    \/ Submit
    \/ WaitStart
    \/ WaitTest
    \/ Poll
    \/ SleepRateLimit
    \/ Sleep
    \/ Download
    \/ SaveResult
    \/ HandleException

FluxSpec == FluxInit /\ [][FluxNext]_vars

\* the interpreter keeps running a call that has a step to take
FluxFairSpec == FluxSpec /\ WF_vars(FluxNext)

----------------------------------------------------------------------------
(* Concurrent invocations of MaskGenerator.create_mask, one per thread *)

Threads == {"t1", "t2"}

\* the images the threads work on are one row of at most MaxConcWidth pixels
MaxConcWidth == 2

ConcImages ==
    UNION { [mode : {"RGBA"}, width : {w}, height : {1}, alpha : Grid(w, 1, {0, 255})] :
            w \in 1..MaxConcWidth }
    \cup {CorruptFile}

\* the frame of a create_mask invocation that has not been entered yet
NewFrame(gen, image) ==
    [gen |-> gen, image |-> image, pc |-> "idle", timestamp |-> NoTimestamp,
     original |-> NoImage, width |-> 0, height |-> 0, alpha_array |-> NoGrid,
     initial_mask |-> NoGrid, mask_large |-> NoGrid, edges |-> NoGrid,
     edge_zone |-> NoGrid, final_high_res |-> NoGrid, final_mask_array |-> NoGrid,
     result |-> NoImage]

\* two generators exist; thread t1 calls g1, thread t2 calls g1 or g2
ConcInit ==
    /\ MaskIdle
    /\ RetryIdle
    /\ FluxIdle
    /\ instances = [g \in {"g1", "g2"} |-> NewGenerator(g = "g2")]
    /\ \E g \in {"g1", "g2"}, i1 \in ConcImages, i2 \in ConcImages :
          frames = [t \in Threads |-> IF t = "t1" THEN NewFrame("g1", i1)
                                                  ELSE NewFrame(g, i2)]

ConcFrame == <<maskVars, retryVars, fluxVars>>

\* line 76
ThreadCall(t) ==
    /\ frames[t].pc = "idle"
    /\ frames' = [frames EXCEPT ![t].pc = "extract", ![t].timestamp = now]
    /\ UNCHANGED <<instances, ConcFrame>>

\* lines 79-82
ThreadExtractAlpha(t) ==
    /\ frames[t].pc = "extract"
    /\ IF Decodable(frames[t].image)
       THEN LET img == ConvertRGBA(frames[t].image)
            IN  frames' = [frames EXCEPT ![t].original = img,
                                         ![t].width = img.width,
                                         ![t].height = img.height,
                                         ![t].alpha_array = AlphaBand(img),
                                         ![t].pc = "binarize"]
       ELSE frames' = [frames EXCEPT ![t].pc = "raised"]
    /\ UNCHANGED <<instances, ConcFrame>>

\* line 96
ThreadInitialMask(t) ==
    /\ frames[t].pc = "binarize"
    /\ frames' = [frames EXCEPT ![t].initial_mask = BinarizeGrid(frames[t].alpha_array),
                                ![t].pc = "supersample"]
    /\ UNCHANGED <<instances, ConcFrame>>

\* variant: the supersampled mask is cached in a field of the generator and
\* reused by the next invocation on it
ThreadSupersampleCached(t) ==
    /\ frames[t].pc = "supersample"
    /\ LET g == frames[t].gen
           large == BinarizeGrid(Resize(frames[t].initial_mask,
                                        frames[t].width * SUPERSAMPLE_FACTOR,
                                        frames[t].height * SUPERSAMPLE_FACTOR))
       IN  IF "mask_large" \in DOMAIN instances[g]
           THEN /\ frames' = [frames EXCEPT ![t].mask_large = instances[g].mask_large,
                                            ![t].pc = "canny"]
                /\ UNCHANGED instances
           ELSE /\ instances' = [instances EXCEPT ![g] =
                                    [debug |-> instances[g].debug,
                                     debug_dir |-> instances[g].debug_dir,
                                     mask_large |-> large]]
                /\ frames' = [frames EXCEPT ![t].mask_large = large, ![t].pc = "canny"]
    /\ UNCHANGED ConcFrame

\* lines 100-104
ThreadSupersample(t) ==
    /\ frames[t].pc = "supersample"
    /\ frames' = [frames EXCEPT
                    ![t].mask_large =
                        BinarizeGrid(Resize(frames[t].initial_mask,
                                            frames[t].width * SUPERSAMPLE_FACTOR,
                                            frames[t].height * SUPERSAMPLE_FACTOR)),
                    ![t].pc = "canny"]
    /\ UNCHANGED <<instances, ConcFrame>>

\* line 108
ThreadEdgeDetect(t) ==
    /\ frames[t].pc = "canny"
    /\ frames' = [frames EXCEPT ![t].edges = Canny(frames[t].mask_large, EDGE_LOW, EDGE_HIGH),
                                ![t].pc = "dilate"]
    /\ UNCHANGED <<instances, ConcFrame>>

\* lines 111-112
ThreadDilateEdges(t) ==
    /\ frames[t].pc = "dilate"
    /\ frames' = [frames EXCEPT ![t].edge_zone = Dilate(frames[t].edges),
                                ![t].pc = "final"]
    /\ UNCHANGED <<instances, ConcFrame>>

\* line 116
ThreadFinalHighRes(t) ==
    /\ frames[t].pc = "final"
    /\ frames' = [frames EXCEPT ![t].final_high_res = frames[t].mask_large,
                                ![t].pc = "downsample"]
    /\ UNCHANGED <<instances, ConcFrame>>

\* lines 120-123
ThreadDownsample(t) ==
    /\ frames[t].pc = "downsample"
    /\ frames' = [frames EXCEPT
                    ![t].final_mask_array =
                        BinarizeGrid(Resize(frames[t].final_high_res,
                                            frames[t].width, frames[t].height)),
                    ![t].pc = "return"]
    /\ UNCHANGED <<instances, ConcFrame>>

\* lines 124 and 129
ThreadReturn(t) ==
    /\ frames[t].pc = "return"
    /\ frames' = [frames EXCEPT ![t].result = FromArray(frames[t].final_mask_array),
                                ![t].pc = "done"]
    /\ UNCHANGED <<instances, ConcFrame>>

ConcNext ==
    \E t \in Threads :
        \/ ThreadCall(t)
        \/ ThreadExtractAlpha(t)
        \/ ThreadInitialMask(t)
        \/ ThreadSupersample(t)
        \/ ThreadEdgeDetect(t)
        \/ ThreadDilateEdges(t)
        \/ ThreadFinalHighRes(t)
        \/ ThreadDownsample(t)
        \/ ThreadReturn(t)

ConcSpec == ConcInit /\ [][ConcNext]_vars

----------------------------------------------------------------------------
(* Helpers of the properties *)

Cells(g) == { <<y, x>> : y \in DOMAIN g, x \in IF DOMAIN g = {} THEN {} ELSE DOMAIN g[0] }

Values(g) == { g[c[1]][c[2]] : c \in Cells(g) }

IsBinary(g) == Values(g) \subseteq {0, 255}

Returned == { returned[i] : i \in 1..Len(returned) }

\* create_mask has got past step 1: the locals of lines 79-82 are bound
InFrame == pc \notin {"idle", "extract", "raised"}

----------------------------------------------------------------------------
(* C1: every pixel of every mask create_mask returns is exactly 0 or 255 *)

C1_BinaryMask == \A m \in Returned : Values(m.px) \subseteq {0, 255}

\* a mask came back for an image whose alpha holds values strictly between the
\* extremes, and the mask holds both 0 and 255
C1_Witness ==
    /\ returned # << >>
    /\ Values(imageFile.alpha) = {127, 128}
    /\ Values(returned[1].px) = {0, 255}

(* C2: the returned mask has the width and the height of the input image *)

C2_SameSize ==
    \A m \in Returned :
        /\ m.width = imageFile.width
        /\ m.height = imageFile.height
        /\ DOMAIN m.px = 0..(imageFile.height - 1)
        /\ \A y \in DOMAIN m.px : DOMAIN m.px[y] = 0..(imageFile.width - 1)

\* a mask came back for an image that is not square
C2_Witness ==
    /\ returned # << >>
    /\ imageFile.width # imageFile.height
    /\ returned[1].width = imageFile.width

(* C3: alpha = 255 at every pixel gives a mask that is 0 at every pixel *)

C3_AllOpaque ==
    (imageFile.mode = "RGBA" /\ Values(imageFile.alpha) = {255})
        => \A m \in Returned : Values(m.px) = {0}

C3_Witness ==
    /\ imageFile.mode = "RGBA"
    /\ Values(imageFile.alpha) = {255}
    /\ imageFile.width > 1
    /\ returned # << >>
    /\ Values(returned[1].px) = {0}

(* C4: alpha = 0 at every pixel gives a mask that is 255 at every pixel *)

C4_AllTransparent ==
    (imageFile.mode = "RGBA" /\ Values(imageFile.alpha) = {0})
        => \A m \in Returned : Values(m.px) = {255}

C4_Witness ==
    /\ imageFile.mode = "RGBA"
    /\ Values(imageFile.alpha) = {0}
    /\ imageFile.width > 1
    /\ returned # << >>
    /\ Values(returned[1].px) = {255}

(* C5: the binarization is strict at 127: alpha > 127 gives 0, anything else *)
(* 255; so 127 gives 255 and 128 gives 0, in the rule and in the initial mask *)
(* (looked at when step 2 has just made the initial mask)                     *)

C5_StrictThreshold ==
    pc = "supersample" =>
        /\ \A a \in 0..255 : Binarize(a) = IF a >= 128 THEN 0 ELSE 255
        /\ \A c \in Cells(alpha_array) :
              initial_mask[c[1]][c[2]] = IF alpha_array[c[1]][c[2]] >= 128 THEN 0 ELSE 255

\* the initial mask of an image that has alpha 127 and alpha 128 side by side
C5_Witness ==
    /\ pc = "supersample"
    /\ width = 2
    /\ alpha_array[0][0] = 127 /\ initial_mask[0][0] = 255
    /\ alpha_array[0][1] = 128 /\ initial_mask[0][1] = 0

(* C6: an RGB image without alpha is decoded to RGBA with alpha = 255 at every *)
(* pixel, and its mask is 0 at every pixel *)

C6_NoAlphaIsOpaque ==
    imageFile.mode = "RGB" =>
        /\ InFrame => /\ original.mode = "RGBA"
                      /\ Values(alpha_array) = {255}
                      /\ GridW(alpha_array) = imageFile.width
                      /\ GridH(alpha_array) = imageFile.height
        /\ \A m \in Returned : Values(m.px) = {0}

C6_Witness ==
    /\ imageFile.mode = "RGB"
    /\ imageFile.width * imageFile.height > 1
    /\ returned # << >>
    /\ Values(returned[1].px) = {0}

(* C7: binarizing twice in succession a grid that holds only 0 and 255 gives *)
(* the grid back (looked at for every grid of the pipeline, when all are made) *)

C7_TwiceIsIdentity ==
    pc = "return" =>
        \A g \in {alpha_array, initial_mask, mask_large, edges, edge_zone,
                  final_high_res, final_mask_array} :
            IsBinary(g) => BinarizeGrid(BinarizeGrid(g)) = g

\* every grid of the pipeline is there, and the binary ones hold both values
C7_Witness ==
    /\ pc = "return"
    /\ Values(alpha_array) = {0, 255}
    /\ Values(mask_large) = {0, 255}
    /\ Values(final_mask_array) = {0, 255}

(* C8: for an alpha plane that is a filled rectangle of opaque pixels on a   *)
(* transparent field, the foreground of the returned mask is the rectangle    *)
(* to within one pixel: it is not empty, it covers the rectangle shrunk by    *)
(* one pixel, it stays inside the rectangle grown by one pixel (which bounds  *)
(* its area), and its centroid is within one pixel of the rectangle's         *)

\* the opaque cells of an alpha plane, the foreground cells of a mask
Opaque(a) == { c \in Cells(a) : a[c[1]][c[2]] = 255 }

Foreground(px) == { c \in Cells(px) : px[c[1]][c[2]] = 0 }

Near(c, d) == Abs(c[1] - d[1]) <= 1 /\ Abs(c[2] - d[2]) <= 1

Grow(S, field) == { c \in field : \E d \in S : Near(c, d) }

Shrink(S) ==
    { c \in S : \A dy \in {-1, 0, 1}, dx \in {-1, 0, 1} : <<c[1] + dy, c[2] + dx>> \in S }

RECURSIVE SumOf(_, _)
SumOf(S, k) ==
    IF S = {} THEN 0
    ELSE LET c == CHOOSE e \in S : TRUE IN c[k] + SumOf(S \ {c}, k)

\* the centroids of S and F are at most one apart along axis k
CentroidClose(S, F, k) ==
    Abs(SumOf(F, k) * Cardinality(S) - SumOf(S, k) * Cardinality(F))
        <= Cardinality(S) * Cardinality(F)

\* S is a non-empty filled axis-parallel rectangle
IsFilledRect(S) ==
    /\ S # {}
    /\ \A c \in S, d \in S : <<c[1], d[2]>> \in S
    /\ \A c \in S, d \in S : \A y \in Min(c[1], d[1])..Max(c[1], d[1]) : <<y, c[2]>> \in S
    /\ \A c \in S, d \in S : \A x \in Min(c[2], d[2])..Max(c[2], d[2]) : <<c[1], x>> \in S

IsShapeImage ==
    /\ imageFile.mode = "RGBA"
    /\ IsBinary(imageFile.alpha)
    /\ IsFilledRect(Opaque(imageFile.alpha))

C8_ShapePreserved ==
    IsShapeImage =>
        \A m \in Returned :
            LET S == Opaque(imageFile.alpha)
                F == Foreground(m.px)
            IN  /\ F # {}
                /\ Shrink(S) \subseteq F
                /\ F \subseteq Grow(S, Cells(imageFile.alpha))
                /\ CentroidClose(S, F, 1)
                /\ CentroidClose(S, F, 2)

\* the centred square: one opaque pixel in the middle of a 3 x 3 field
C8_Witness ==
    /\ imageFile.width = 3 /\ imageFile.height = 3
    /\ IsShapeImage
    /\ Opaque(imageFile.alpha) = {<<1, 1>>}
    /\ returned # << >>
    /\ Foreground(returned[1].px) # {}

(* C9: two invocations on the same image return the same mask, whatever the  *)
(* timestamp read at the start of each and whatever the debug flag of the     *)
(* generator each ran on                                                      *)

C9_SameMask ==
    /\ \A m1 \in Returned, m2 \in Returned : m1 = m2
    /\ (pc = "return" /\ returned # << >>) => FromArray(final_mask_array) = returned[1]

\* a second invocation is about to return; it read another timestamp and ran
\* with another debug flag than the one before
C9_Witness ==
    /\ pc = "return"
    /\ returned # << >>
    /\ lastRun.timestamp # timestamp
    /\ lastRun.debug # self.debug
    /\ Values(final_mask_array) = {0, 255}

(* C10: no step of create_mask creates or writes a file, changes the image   *)
(* file or changes a field of the MaskGenerator; what it gives is the mask    *)
(* it returns                                                                 *)

\* every step of create_mask moves pc; building a generator does not
C10_NoSideEffects ==
    [][pc' # pc => /\ files' = files
                   /\ imageFile' = imageFile
                   /\ self' = self]_vars

\* an invocation on a debug generator has returned: the directory __init__
\* made is all there is on disk
C10_Witness ==
    /\ returned # << >>
    /\ lastRun.debug
    /\ self.debug
    /\ files = {DebugDir}

(* C11: when the image file cannot be opened or decoded, create_mask leaves  *)
(* by the exception of line 79 at once: the only step it takes goes from the *)
(* open to the raise, no local of a later stage is ever bound and no mask    *)
(* comes back                                                                 *)
C11_FailsAtOpen ==
    ~Decodable(imageFile) =>
        /\ pc \in {"idle", "extract", "raised"}
        /\ returned = << >>
        /\ original = NoImage
        /\ alpha_array = NoGrid
        /\ initial_mask = NoGrid
        /\ mask_large = NoGrid
        /\ edges = NoGrid
        /\ edge_zone = NoGrid
        /\ final_high_res = NoGrid
        /\ final_mask_array = NoGrid

\* create_mask was entered on a corrupt file and the exception has left it
C11_Witness ==
    /\ ~Decodable(imageFile)
    /\ pc = "raised"
    /\ timestamp = NoTimestamp

(* C19: the edge map and its dilation never reach the result: final_high_res *)
(* is mask_large itself, and the mask about to be returned is the one the    *)
(* downsampling of mask_large gives with steps 4 left out                    *)
C19_EdgesUnused ==
    /\ pc \in {"downsample", "return"} => final_high_res = mask_large
    /\ pc = "return" => final_mask_array = BinarizeGrid(Resize(mask_large, width, height))

\* the edge detector found edges and the dilation widened them, and the mask
\* is about to be returned
C19_Witness ==
    /\ pc = "return"
    /\ 255 \in Values(edges)
    /\ Cardinality({c \in Cells(edge_zone) : edge_zone[c[1]][c[2]] = 255})
          > Cardinality({c \in Cells(edges) : edges[c[1]][c[2]] = 255})

(* C20: every binary mask reads 0 = foreground, 255 = background: the        *)
(* initial mask, the supersampled mask after its re-threshold (at the centre *)
(* of the 4x4 block of each source pixel) and the final mask are 0 where the *)
(* source alpha is above 127 and 255 where it is not                         *)
C20_Polarity ==
    \A c \in Cells(alpha_array) :
        LET want == IF alpha_array[c[1]][c[2]] > ALPHA_THRESHOLD THEN 0 ELSE 255
            Y == c[1] * SUPERSAMPLE_FACTOR
            X == c[2] * SUPERSAMPLE_FACTOR
        IN  /\ initial_mask # NoGrid => initial_mask[c[1]][c[2]] = want
            /\ mask_large # NoGrid =>
                   \A dy \in 1..2, dx \in 1..2 : mask_large[Y + dy][X + dx] = want
            /\ final_mask_array # NoGrid => final_mask_array[c[1]][c[2]] = want

(* C18: _retry_with_backoff invokes func at most max_retries times and ends  *)
(* the way its last invocation ended: with the result of the first           *)
(* invocation that succeeds, or with the exception of the last one. Every    *)
(* invocation before the last raised an exception whose message contains     *)
(* 'rate_limit' in any letter case, the i-th sleep is initial_delay *        *)
(* 2^(i-1) and there is one sleep between two invocations; an exception      *)
(* that propagates is not a rate-limit one or is that of attempt             *)
(* max_retries                                                                *)
RateLimitMessages == {MsgRateLimit, MsgRateLimitUpper}

RetryFinished == retry_pc = "idle" /\ retry_out # NoOutcome

C18_RetryWithBackoff ==
    LET n == Len(calls)
    IN  /\ n <= max_retries
        /\ \A i \in 1..(n - 1) :
              /\ calls[i].kind = "raise"
              /\ calls[i].value \in RateLimitMessages
        /\ Len(slept) = IF retry_pc = "loop" \/ n = 0 THEN n ELSE n - 1
        /\ \A i \in 1..Len(slept) : slept[i] = initial_delay * 2^(i - 1)
        /\ (RetryFinished /\ n > 0) => retry_out = calls[n]
        /\ retry_out.kind = "raise" =>
              \/ retry_out.value \notin RateLimitMessages
              \/ n = max_retries

\* two rate-limit errors, slept 1 then 2 seconds, and the third invocation
\* succeeded
C18_Witness ==
    /\ RetryFinished
    /\ max_retries = 3
    /\ Len(calls) = 3
    /\ slept = <<1, 2>>
    /\ retry_out.kind = "return"
    /\ calls[1].value # calls[2].value

(* C13: _wait_for_result always ends once it is entered; when it ends        *)
(* without a poll that gave a Ready result it ends with TimeoutError, raised *)
(* only when MAX_WAIT_TIME seconds or more have passed since it began; and   *)
(* every poll starts less than MAX_WAIT_TIME seconds after it began          *)
C13_TimeoutEndsWait ==
    /\ [](wait_out # NoOutcome =>
             \/ /\ wait_out = [kind |-> "raise", value |-> "TimeoutError"]
                /\ clock - start_time >= 600
             \/ poll \in {"ReadySample", "ReadyNoSample"})
    /\ [][(flux_pc = "poll" /\ flux_pc' # "poll") => clock - start_time < 600]_vars
    /\ (flux_pc = "wait") ~> (wait_out # NoOutcome)

\* the task stayed pending until the time was up and TimeoutError reached
\* the caller of enhance_product_image
C13_Witness ==
    /\ flux_pc = "done"
    /\ wait_out = [kind |-> "raise", value |-> "TimeoutError"]
    /\ poll = "Pending"
    /\ clock - start_time >= 600

(* C14: from its first line to its end _wait_for_result takes no more than   *)
(* MAX_WAIT_TIME = 600 seconds, polls and sleeps counted                     *)
C14_TotalWaitBounded ==
    (flux_pc \in {"test", "poll", "sleep429", "sleep"} \/ wait_out # NoOutcome) =>
        clock - start_time <= 600

(* C15: a poll that fails with a connection error, a request timeout or a    *)
(* non-2xx status other than 429 makes _wait_for_result raise a              *)
(* RequestException                                                           *)
C15_PollErrorRaises ==
    poll \in {"ConnectionError", "Timeout", "HTTPError"} =>
        /\ wait_out.kind = "raise"
        /\ IsA(wait_out.value, "RequestException")

\* the classes the docstring of enhance_product_image (lines 161-165) gives
\* for a failure at each place
Documented(at) ==
    CASE at \in {"prompt", "submit_body", "task_id", "sample"} -> {"ValueError"}
      [] at \in {"image", "mask", "trend_file", "encode_image", "encode_mask", "save"} ->
            {"IOError"}
      [] at \in {"submit", "download"} -> {"RequestException"}
      [] at = "wait" -> {"TimeoutError"}
      [] at = "result_image" -> {"ValueError", "IOError"}

(* C16: enhance_product_image raises by kind: ValueError for invalid input   *)
(* or a malformed API response, IOError for a failed file operation (image,  *)
(* mask, trend-analysis file), RequestException for an API or network        *)
(* failure on submit, poll or download, TimeoutError for a polling timeout;  *)
(* never a bare Exception in their place                                      *)
C16_FailuresByKind ==
    /\ flux_out.kind = "raise" =>
          \E b \in Documented(raised.at) : IsA(flux_out.value, b)
    /\ (flux_pc = "done" /\ poll \in {"ConnectionError", "Timeout", "HTTPError"}) =>
          /\ flux_out.kind = "raise"
          /\ IsA(flux_out.value, "RequestException")

Alone(img) ==
    LET rgba  == ConvertRGBA(img)
        first == BinarizeGrid(AlphaBand(rgba))
        large == BinarizeGrid(Resize(first, rgba.width * SUPERSAMPLE_FACTOR,
                                     rgba.height * SUPERSAMPLE_FACTOR))
    IN  FromArray(BinarizeGrid(Resize(large, rgba.width, rgba.height)))

(* C12: concurrent invocations of create_mask share no mutable state: no     *)
(* step changes a generator, a step of one thread changes no other thread's  *)
(* frame, and under every interleaving each invocation ends as it does when  *)
(* run alone: with the mask of its own image, or raising exactly when its    *)
(* image cannot be decoded                                                    *)
C12_Reentrant ==
    /\ [](\A t \in Threads :
             /\ frames[t].pc = "done" => frames[t].result = Alone(frames[t].image)
             /\ frames[t].pc = "raised" => ~Decodable(frames[t].image)
             /\ frames[t].pc \in {"binarize", "done"} => Decodable(frames[t].image))
    /\ [][/\ instances' = instances
          /\ \A t, u \in Threads :
                (t # u /\ frames'[t] # frames[t]) => frames'[u] = frames[u]]_vars

\* both threads ran on the same generator, on different images, and returned
\* different masks
C12_Witness ==
    /\ DOMAIN frames = Threads
    /\ \A t \in Threads : frames[t].pc = "done"
    /\ frames["t1"].gen = frames["t2"].gen
    /\ frames["t1"].result # frames["t2"].result

\* inside the polling loop of _wait_for_result
InWaitLoop == flux_pc \in {"test", "poll", "sleep429", "sleep"}

NativeBinarization(a) ==
    [y \in DOMAIN a |-> [x \in DOMAIN a[y] |-> IF a[y][x] > 127 THEN 0 ELSE 255]]

(* C22: the mask create_mask returns equals, pixel for pixel, the            *)
(* binarization of the alpha plane at native resolution: upscale,            *)
(* re-threshold, downscale and final re-threshold change no pixel of the     *)
(* initial mask                                                               *)
C22_EqualsInitialMask ==
    /\ pc = "return" =>
          /\ final_mask_array = initial_mask
          /\ FromArray(final_mask_array).px = NativeBinarization(alpha_array)
    /\ (returned # << >> /\ imageFile.mode = "RGBA") =>
          returned[Len(returned)].px = NativeBinarization(imageFile.alpha)

\* a mask with both values was returned for an image of 3x3 pixels or more
C22_Witness ==
    /\ returned # << >>
    /\ imageFile.mode = "RGBA"
    /\ imageFile.width >= 3 /\ imageFile.height >= 3
    /\ Values(returned[Len(returned)].px) = {0, 255}
    /\ Values(imageFile.alpha) = {0, 255}

====
